---------------------------- MODULE Spec2Model ----------------------------
(***************************************************************************)
(* Model of src/app.py, the "Voila Reservation Manager": a booking form    *)
(* that appends reservations to a spreadsheet, a schedule grid computed    *)
(* from the loaded rows, and a status manager that diffs an edited view    *)
(* against the loaded baseline and writes the changed Status cells back.   *)
(*                                                                         *)
(* Conventions.                                                            *)
(*  - A string the code tests by substring (the Table cell) is a sequence  *)
(*    of one-character strings; other strings are atoms.                   *)
(*  - A datetime is an integer: minutes since 00:00 of day 0.  The text    *)
(*    the sheet holds for it, str(datetime), is the tuple <<day, hh, mm>>; *)
(*    any other tuple is text pd.to_datetime cannot parse.                 *)
(*  - uuid4()[:8] gives an id no row of the sheet holds yet; ids are only   *)
(*    ever compared for equality, so the model takes the first unused one  *)
(*    of a pool.                                                           *)
(***************************************************************************)
EXTENDS Integers, Sequences, FiniteSets, TLC

VARIABLES
    sheet,      \* the spreadsheet's rows; row 1 is the header once written
    secrets,    \* whether "gcp_service_account" is in st.secrets
    op,         \* per operator session: the dashboard script's locals (tab 2)
    err,        \* per session: the unhandled exception that ended its last
                \* script run, or "none"
    lastLoad,   \* per session: how the last load_data() call of its last
                \* script run ended: "none" (not run yet), "ok", "failed"
    issued      \* how many ids uuid4 has given out

vars == <<sheet, secrets, op, err, lastLoad, issued>>

---------------------------------------------------------------------------
(* Bounds of the model *)

\* data rows the bookings may add to the sheet
MaxRows == 2

\* calendar days the date pickers range over: 1..NumDays
NumDays == 2

Days == 1..NumDays

Operators == {"o1", "o2"}

---------------------------------------------------------------------------
(* Strings as character sequences *)

RECURSIVE Join(_, _)
\* sep.join(parts)
Join(sep, parts) ==
    IF parts = <<>> THEN <<>>
    ELSE IF Len(parts) = 1 THEN parts[1]
    ELSE parts[1] \o sep \o Join(sep, Tail(parts))

\* Series.str.contains(sub): sub occurs somewhere in s
Contains(s, sub) ==
    \E i \in 0..(Len(s) - Len(sub)) : SubSeq(s, i + 1, i + Len(sub)) = sub

TablePrefix == <<"T", "a", "b", "l", "e", " ">>
Outdoor == <<"O", "u", "t", "d", "o", "o", "r">>
VIP == <<"V", "I", "P">>
CommaSpace == <<",", " ">>

\* f"Table {i}"
TableName(i) == TablePrefix \o <<ToString(i)>>

\* [f"Table {i}" for i in range(1, 9)] + ["Outdoor", "VIP"]
all_tables == [i \in 1..8 |-> TableName(i)] \o <<Outdoor, VIP>>

---------------------------------------------------------------------------
(* Datetimes *)

\* pandas NaT, what errors='coerce' yields for text that does not parse
NaT == -1

MinutesPerDay == 24 * 60

\* datetime.combine(date, time(h, m))
Combine(d, h, m) == d * MinutesPerDay + h * 60 + m

\* .dt.date of a timestamp
DateOf(ts) == IF ts = NaT THEN NaT ELSE ts \div MinutesPerDay

\* str(datetime): the text written to the sheet
StrOfDatetime(ts) ==
    <<ts \div MinutesPerDay, (ts % MinutesPerDay) \div 60, ts % 60>>

\* pd.to_datetime(text, errors='coerce')
ToDatetime(text) ==
    IF /\ Len(text) = 3
       /\ text[1] >= 0
       /\ text[2] \in 0..23
       /\ text[3] \in 0..59
    THEN Combine(text[1], text[2], text[3])
    ELSE NaT

\* a <= b on timestamps: any comparison with NaT is False
TsLe(a, b) == a # NaT /\ b # NaT /\ a <= b

\* a > b on timestamps
TsGt(a, b) == a # NaT /\ b # NaT /\ a > b

---------------------------------------------------------------------------
(* The sheet and the data functions (section 4 of app.py) *)

\* the header row add_reservation writes to an empty sheet
HeaderRow ==
    [Table |-> "Table", CustomerName |-> "Customer Name", Start |-> "Start",
     End |-> "End", Status |-> "Status", ID |-> "ID", Notes |-> "Notes",
     Pax |-> "Pax"]

\* get_connection(): the client, or None without the secret
get_connection == IF secrets THEN "client" ELSE "None"

\* sheet.get_all_records(): the rows under the header
get_all_records(sh) == IF sh = <<>> THEN <<>> ELSE Tail(sh)

\* load_data(), given whether the read of the sheet succeeds: the DataFrame
\* as the sequence of its rows, Start and End parsed with errors='coerce';
\* no client or an exception gives the empty DataFrame
load_data(readOk) ==
    IF get_connection = "None" THEN <<>>
    ELSE IF ~readOk THEN <<>>
    ELSE LET data == get_all_records(sheet)
         IN  [i \in 1..Len(data) |->
                [data[i] EXCEPT !.Start = ToDatetime(data[i].Start),
                                !.End = ToDatetime(data[i].End)]]

\* whether that load_data() call failed
LoadOutcome(readOk) ==
    IF get_connection = "None" \/ ~readOk THEN "failed" ELSE "ok"

\* the row add_reservation appends for a payload
ReservationRow(payload) ==
    [Table |-> Join(CommaSpace, payload.Table),
     CustomerName |-> payload.CustomerName,
     Start |-> StrOfDatetime(payload.Start),
     End |-> StrOfDatetime(payload.End),
     Status |-> payload.Status,
     ID |-> payload.ID,
     Notes |-> payload.Notes,
     Pax |-> payload.Pax]

\* add_reservation(payload): the sheet afterwards
add_reservation(payload) ==
    (IF sheet = <<>> THEN <<HeaderRow>> ELSE sheet)
        \o <<ReservationRow(payload)>>

\* sheet.col_values(6): the ID column, header cell included
col_values_ID(sh) == [i \in 1..Len(sh) |-> sh[i].ID]

\* list.index(x) + 1 for an x the list holds: the 1-based place of its first
\* occurrence
IndexPlusOne(id_list, x) ==
    CHOOSE n \in 1..Len(id_list) :
        /\ id_list[n] = x
        /\ \A k \in 1..(n - 1) : id_list[k] # x

\* row_num without the + 1: the list's 0-based index taken for the row
RowNum_ZeroBased(id_list, row_id) == IndexPlusOne(id_list, row_id) - 1

\* row_num for row_id in update_status_batch
RowNum(id_list, row_id) == IndexPlusOne(id_list, row_id)

\* the updates list update_status_batch builds from changes_dict and the
\* id_list it read: an id the list lacks raises in .index and is skipped
\* (except: continue).  As the set of {range E<row_num>, value} entries.
BuildUpdates(changes_dict, id_list) ==
    { [row_num |-> RowNum(id_list, row_id), value |-> changes_dict[row_id]] :
        row_id \in { x \in DOMAIN changes_dict :
                        \E n \in 1..Len(id_list) : id_list[n] = x } }

\* the updates sent with range B<row_num>: the value lands in Customer Name
batch_update_ColumnB(sh, updates) ==
    [n \in 1..Len(sh) |->
        IF \E u \in updates : u.row_num = n
        THEN [sh[n] EXCEPT !.CustomerName =
                (CHOOSE u \in updates : u.row_num = n).value]
        ELSE sh[n]]

\* sheet.batch_update(updates): each entry sets cell E<row_num>
batch_update(sh, updates) ==
    [n \in 1..Len(sh) |->
        IF \E u \in updates : u.row_num = n
        THEN [sh[n] EXCEPT !.Status =
                (CHOOSE u \in updates : u.row_num = n).value]
        ELSE sh[n]]

---------------------------------------------------------------------------
(* Tab 2: the schedule grid *)

\* the mask without its Status term: every row of the viewed day
df_day_KeepCancelled(df, view_date) ==
    SelectSeq(df, LAMBDA r : DateOf(r.Start) = view_date)

\* mask / df_day: the rows of the viewed day that are not Cancelled
df_day(df, view_date) ==
    SelectSeq(df, LAMBDA r : DateOf(r.Start) = view_date
                             /\ r.Status # "Cancelled")

RECURSIVE SlotsFrom_Exclusive(_, _)
\* the loop with current_t < end_t: the slot at end_t is left out
SlotsFrom_Exclusive(current_t, end_t) ==
    IF current_t < end_t
    THEN <<current_t>> \o SlotsFrom_Exclusive(current_t + 30, end_t)
    ELSE <<>>

RECURSIVE SlotsFrom(_, _)
\* the while loop: current_t, current_t + 30min, ... while current_t <= end_t
SlotsFrom(current_t, end_t) ==
    IF current_t <= end_t
    THEN <<current_t>> \o SlotsFrom(current_t + 30, end_t)
    ELSE <<>>

\* time_slots for the viewed day: 10:00 .. 22:00
time_slots(view_date) ==
    SlotsFrom(Combine(view_date, 10, 0), Combine(view_date, 22, 0))

\* t.strftime('%H:%M'), as <<hh, mm>>
time_label(t) == <<(t % MinutesPerDay) \div 60, t % 60>>

\* res_match with End >= t_slot: a booking also takes the slot it ends at
res_match_EndInclusive(dday, tbl, t_slot) ==
    SelectSeq(dday, LAMBDA r : /\ TsLe(r.Start, t_slot)
                               /\ TsLe(t_slot, r.End)
                               /\ Contains(r.Table, tbl))

\* res_match: the rows of df_day with Table containing tbl, Start <= t_slot
\* and End > t_slot (the three masks are and-ed; the cheap ones come first)
res_match(dday, tbl, t_slot) ==
    SelectSeq(dday, LAMBDA r : /\ TsLe(r.Start, t_slot)
                               /\ TsGt(r.End, t_slot)
                               /\ Contains(r.Table, tbl))

\* one cell of the grid: is_booked and hover_txt
\* ("Available", or f"{cust_name} ({pax_num} Pax)" of res_match.iloc[0])
Cell(dday, tbl, t_slot) ==
    LET m == res_match(dday, tbl, t_slot)
    IN  IF m # <<>>
        THEN [is_booked |-> 1, hover_txt |-> <<m[1].CustomerName, m[1].Pax>>]
        ELSE [is_booked |-> 0, hover_txt |-> <<"Available">>]

\* the heatmap handed to plotly: y, x, z and text; "No Data." for an empty df
Grid(df, view_date) ==
    IF df = <<>> THEN [shown |-> FALSE]
    ELSE LET dday == df_day(df, view_date)
             slots == time_slots(view_date)
             cells == [r \in 1..Len(all_tables) |->
                        [c \in 1..Len(slots) |->
                            Cell(dday, all_tables[r], slots[c])]]
         IN  [shown |-> TRUE,
              y |-> all_tables,
              x |-> [c \in 1..Len(slots) |-> time_label(slots[c])],
              z_data |-> [r \in 1..Len(all_tables) |->
                            [c \in 1..Len(slots) |-> cells[r][c].is_booked]],
              text_data |-> [r \in 1..Len(all_tables) |->
                            [c \in 1..Len(slots) |-> cells[r][c].hover_txt]]]

---------------------------------------------------------------------------
(* Tab 2: the status manager *)

RECURSIVE InsertByStart(_, _)
\* r put into a sequence sorted by Start, after the rows not greater than it
InsertByStart(sorted, r) ==
    IF sorted = <<>> THEN <<r>>
    ELSE IF Head(sorted).Start <= r.Start
         THEN <<Head(sorted)>> \o InsertByStart(Tail(sorted), r)
         ELSE <<r>> \o sorted

RECURSIVE SortByStart(_)
\* DataFrame.sort_values("Start")
SortByStart(rows) ==
    IF rows = <<>> THEN <<>>
    ELSE InsertByStart(SortByStart(SubSeq(rows, 1, Len(rows) - 1)),
                       rows[Len(rows)])

\* mask_all / df_all: the rows of the viewed day, sorted by Start
df_all(df, view_date) ==
    SortByStart(SelectSeq(df, LAMBDA r : DateOf(r.Start) = view_date))

\* df_all[["Status", "Table", "Customer Name", "Start", "End", "Notes", "ID"]]
EditorColumns(r) ==
    [Status |-> r.Status, Table |-> r.Table, CustomerName |-> r.CustomerName,
     Start |-> r.Start, End |-> r.End, Notes |-> r.Notes, ID |-> r.ID]

\* what st.data_editor shows before any edit
EditorData(df, view_date) ==
    LET a == df_all(df, view_date)
    IN  [i \in 1..Len(a) |-> EditorColumns(a[i])]

\* whether df.loc[df['ID'] == id] has a row
HasID(df, id) == \E k \in 1..Len(df) : df[k].ID = id

\* df.loc[df['ID'] == id, 'Status'].values[0]: the first such row's Status
OrigStatus(df, id) ==
    df[CHOOSE k \in 1..Len(df) :
          /\ df[k].ID = id
          /\ \A j \in 1..(k - 1) : df[j].ID # id].Status

\* the loop without its test: every edited row is recorded
StatusChanged_Always(row, orig) == TRUE

\* whether the loop records this edited row: its Status is not orig
StatusChanged(row, orig) == row.Status # orig

RECURSIVE DiffLoop(_, _, _)
\* the SAVE CHANGES loop over edited_df.iterrows(), from the changes so far:
\* the changes dict, and "IndexError" when .values[0] finds no row
DiffLoop(df, edited, acc) ==
    IF edited = <<>> THEN [changes |-> acc, error |-> "none"]
    ELSE LET row == Head(edited)
         IN  IF ~HasID(df, row.ID)
             THEN [changes |-> acc, error |-> "IndexError"]
             ELSE IF StatusChanged(row, OrigStatus(df, row.ID))
                  THEN DiffLoop(df, Tail(edited),
                                (row.ID :> row.Status) @@ acc)
                  ELSE DiffLoop(df, Tail(edited), acc)

\* changes = {} before the loop
NoChanges == <<>>

\* the changes dict SAVE CHANGES computes
Changes(df, edited) == DiffLoop(df, edited, NoChanges)

---------------------------------------------------------------------------
(* Inputs *)

\* the ids uuid4()[:8] gives, in the order the model hands them out
UUIDs == [i \in 1..MaxRows |-> "id" \o ToString(i)]

\* str(uuid.uuid4())[:8] for the next booking
uuid4 == UUIDs[issued + 1]

\* st.multiselect("Assign Table(s)", table_list): lists of catalog tables in
\* the order selected
FormTables == { <<TableName(1)>>, <<TableName(2), TableName(1)>> }

\* final_cust: a name typed or picked
FormCustomers == { "Ann", "Bob" }

\* st.time_input("Time", value=time(12, 0), step=900), left at its value:
\* minutes after midnight
FormTime == 12 * 60

\* st.selectbox("Duration", [1, 2, 3, 4], index=1), left at its value: hours
FormDuration == 2

\* st.number_input("Guests (Pax)", min_value=1, value=2)
FormPax == 2

\* rows a sheet may hold before the app's first booking, written by hand or
\* by an earlier variant of the app: an End and a Start that do not parse,
\* and a Status that is neither Reserved nor Cancelled
LegacyRows ==
    { [Table |-> TableName(1), CustomerName |-> "Zed",
       Start |-> <<1, 11, 15>>, End |-> <<1, 25, 0>>,
       Status |-> "Reserved", ID |-> "legacy", Notes |-> "", Pax |-> 3],
      [Table |-> TableName(1), CustomerName |-> "Zed",
       Start |-> <<>>, End |-> <<1, 13, 0>>,
       Status |-> "Reserved", ID |-> "legacy", Notes |-> "", Pax |-> 3],
      [Table |-> TableName(1), CustomerName |-> "Zed",
       Start |-> <<1, 11, 15>>, End |-> <<1, 13, 0>>,
       Status |-> "Pending", ID |-> "legacy", Notes |-> "", Pax |-> 3] }

\* the payload dict of the booking form
Payload(tables, cust, res_date) ==
    LET start_dt == Combine(res_date, 0, 0) + FormTime
    IN  [Table |-> tables, CustomerName |-> cust,
         Start |-> start_dt, End |-> start_dt + FormDuration * 60,
         Status |-> "Reserved", ID |-> uuid4, Notes |-> "", Pax |-> FormPax]

---------------------------------------------------------------------------
(* State *)

\* a session before its first script run
FreshSession ==
    [pc |-> "idle", view_date |-> 1, df |-> <<>>, edited_df |-> <<>>,
     changes |-> NoChanges, updates |-> {}, notice |-> ""]

InitSessions ==
    /\ op = [o \in Operators |-> FreshSession]
    /\ err = [o \in Operators |-> "none"]
    /\ lastLoad = [o \in Operators |-> "none"]
    /\ issued = 0

\* the tab 2 part of a script run that reaches it: load, grid, editor
Tab2(o, d, readOk) ==
    LET df == load_data(readOk)'
    IN  /\ op' = [op EXCEPT ![o] =
                    [pc |-> "viewing", view_date |-> d, df |-> df,
                     edited_df |-> EditorData(df, d),
                     changes |-> NoChanges, updates |-> {}, notice |-> ""]]
        /\ lastLoad' = [lastLoad EXCEPT ![o] = LoadOutcome(readOk)]

\* a script run without a submit or a save: the page is (re)loaded for view
\* date d
View(o, d, readOk) ==
    /\ op[o].pc # "saving"
    /\ UNCHANGED <<sheet, secrets, issued>>
    /\ Tab2(o, d, readOk)
    /\ err' = [err EXCEPT ![o] = "none"]

\* CONFIRM RESERVATION: tab 1 loads the customers, validates, and calls
\* add_reservation (which raises on a None client); the run then goes on to
\* tab 2
Submit(o, payload, readOk1, readOk2) ==
    /\ op[o].pc # "saving"
    /\ UNCHANGED secrets
    /\ IF payload.CustomerName = "" \/ payload.Table = <<>>
       THEN /\ UNCHANGED <<sheet, issued>>
            /\ Tab2(o, op[o].view_date, readOk2)
            /\ err' = [err EXCEPT ![o] = "none"]
       ELSE IF get_connection = "None"
       THEN /\ UNCHANGED <<sheet, issued>>
            /\ op' = op
            /\ lastLoad' = [lastLoad EXCEPT ![o] = LoadOutcome(readOk1)]
            /\ err' = [err EXCEPT ![o] = "AttributeError"]
       ELSE /\ sheet' = add_reservation(payload)
            /\ issued' = issued + 1
            /\ Tab2(o, op[o].view_date, readOk2)
            /\ err' = [err EXCEPT ![o] = "none"]

\* the operator picks another Status in a cell of the editor
EditStatus(o) ==
    /\ op[o].pc = "viewing"
    /\ \E i \in 1..Len(op[o].edited_df) :
         \E st \in {"Reserved", "Cancelled"} \ {op[o].edited_df[i].Status} :
            op' = [op EXCEPT ![o].edited_df[i].Status = st]
    /\ UNCHANGED <<sheet, secrets, err, lastLoad, issued>>

\* the operator retypes a cell of a column other than Status and ID
EditOther(o) ==
    /\ op[o].pc = "viewing"
    /\ \E i \in 1..Len(op[o].edited_df) :
         \E name \in FormCustomers \ {op[o].edited_df[i].CustomerName} :
            op' = [op EXCEPT ![o].edited_df[i].CustomerName = name]
    /\ UNCHANGED <<sheet, secrets, err, lastLoad, issued>>

\* SAVE CHANGES, up to the call of sheet.batch_update: the diff loop, then
\* update_status_batch reads the ID column and builds its updates
SaveChanges(o) ==
    /\ op[o].pc = "viewing"
    /\ op[o].df # <<>>
    /\ UNCHANGED <<sheet, secrets, lastLoad, issued>>
    /\ LET d == Changes(op[o].df, op[o].edited_df)
           updates == BuildUpdates(d.changes, col_values_ID(sheet))
       IN  IF d.error # "none"
           THEN /\ err' = [err EXCEPT ![o] = d.error]
                /\ op' = op
           ELSE /\ err' = [err EXCEPT ![o] = "none"]
                /\ IF DOMAIN d.changes = {}
                   THEN op' = op
                   ELSE IF updates # {}
                   THEN op' = [op EXCEPT ![o].pc = "saving",
                                         ![o].changes = d.changes,
                                         ![o].updates = updates]
                   ELSE op' = [op EXCEPT ![o].pc = "idle",
                                         ![o].changes = d.changes,
                                         ![o].updates = updates,
                                         ![o].notice = "Database Updated!"]

\* sheet.batch_update(updates), then st.success and st.rerun()
BatchUpdate(o) ==
    /\ op[o].pc = "saving"
    /\ sheet' = batch_update(sheet, op[o].updates)
    /\ op' = [op EXCEPT ![o].pc = "idle",
                        ![o].notice = "Database Updated!"]
    /\ UNCHANGED <<secrets, err, lastLoad, issued>>

\* the model's bound on the sheet: a booking needs room for its row and an
\* id of the pool
RoomLeft == Len(get_all_records(sheet)) < MaxRows /\ issued < MaxRows

---------------------------------------------------------------------------
(* Spec: one session books, views the schedule, edits and saves statuses.   *)
(* The sheet starts empty or with the header and one legacy row.            *)

Init ==
    /\ sheet \in {<<>>} \cup { <<HeaderRow, r>> : r \in LegacyRows }
    /\ secrets = TRUE
    /\ InitSessions

SubmitBooking(o) ==
    /\ RoomLeft
    /\ \E tables \in FormTables, res_date \in Days :
         Submit(o, Payload(tables, "Ann", res_date), TRUE, TRUE)

Next ==
    \E o \in {"o1"} :
        \/ SubmitBooking(o)
        \/ \E d \in Days : View(o, d, TRUE)
        \/ EditStatus(o)
        \/ SaveChanges(o)
        \/ BatchUpdate(o)

Spec == Init /\ [][Next]_vars

---------------------------------------------------------------------------
(* SpecEdit: as Spec on one day, and the operator also retypes cells of     *)
(* the editor's other columns before saving.                                *)

InitEmpty ==
    /\ sheet = <<>>
    /\ secrets = TRUE
    /\ InitSessions

SubmitDayOne(o) ==
    /\ RoomLeft
    /\ \E cust \in FormCustomers :
         Submit(o, Payload(<<TableName(1)>>, cust, 1), TRUE, TRUE)

NextEdit ==
    \E o \in {"o1"} :
        \/ SubmitDayOne(o)
        \/ View(o, 1, TRUE)
        \/ EditStatus(o)
        \/ EditOther(o)
        \/ SaveChanges(o)
        \/ BatchUpdate(o)

SpecEdit == InitEmpty /\ [][NextEdit]_vars

---------------------------------------------------------------------------
(* SpecConc: two sessions on the same sheet.  Each script run is one step,  *)
(* except that a save is two: the read of the ID column and the later       *)
(* batch_update are separate calls to the store, and the other session's    *)
(* steps may come between them.                                             *)

SubmitPlain(o) ==
    /\ RoomLeft
    /\ Submit(o, Payload(<<TableName(1)>>, "Ann", 1), TRUE, TRUE)

NextConc ==
    \E o \in Operators :
        \/ SubmitPlain(o)
        \/ View(o, 1, TRUE)
        \/ EditStatus(o)
        \/ SaveChanges(o)
        \/ BatchUpdate(o)

SpecConc == InitEmpty /\ [][NextConc]_vars

---------------------------------------------------------------------------
(* SpecFail: the store may be unreachable.  The secret may be missing (no   *)
(* client for the whole run of the app), and any read of the sheet may      *)
(* raise.                                                                   *)

InitFail ==
    /\ sheet = <<>>
    /\ secrets \in BOOLEAN
    /\ InitSessions

\* the form may also be submitted without a table
SubmitUnreliable(o) ==
    /\ RoomLeft
    /\ \E tables \in FormTables \cup {<<>>}, readOk1 \in BOOLEAN,
          readOk2 \in BOOLEAN :
         Submit(o, Payload(tables, "Ann", 1), readOk1, readOk2)

NextFail ==
    \E o \in {"o1"} :
        \/ SubmitUnreliable(o)
        \/ \E d \in Days, readOk \in BOOLEAN : View(o, d, readOk)
        \/ EditStatus(o)
        \/ SaveChanges(o)
        \/ BatchUpdate(o)

SpecFail == InitFail /\ [][NextFail]_vars

---------------------------------------------------------------------------
(* SpecExt: as Spec on one day, and rows of the sheet may be deleted in the *)
(* spreadsheet itself, outside the app, between two script runs.            *)

\* somebody deletes data row n in the spreadsheet
ExternalDelete(n) ==
    /\ n \in 2..Len(sheet)
    /\ \A o \in Operators : op[o].pc # "saving"
    /\ sheet' = SubSeq(sheet, 1, n - 1) \o SubSeq(sheet, n + 1, Len(sheet))
    /\ UNCHANGED <<secrets, op, err, lastLoad, issued>>

NextExt ==
    \/ \E o \in {"o1"} :
        \/ SubmitPlain(o)
        \/ View(o, 1, TRUE)
        \/ EditStatus(o)
        \/ SaveChanges(o)
        \/ BatchUpdate(o)
    \/ \E n \in 2..(MaxRows + 1) : ExternalDelete(n)

SpecExt == InitEmpty /\ [][NextExt]_vars

---------------------------------------------------------------------------
(* Reference notions the claims are stated in *)

RECURSIVE SplitCommaSpace(_, _)
\* the set of identifiers a Table cell lists, read off at its ", " separators
\* (cur is the identifier read so far)
SplitCommaSpace(s, cur) ==
    IF s = <<>> THEN {cur}
    ELSE IF Len(s) >= 2 /\ SubSeq(s, 1, 2) = CommaSpace
         THEN {cur} \cup SplitCommaSpace(SubSeq(s, 3, Len(s)), <<>>)
         ELSE SplitCommaSpace(Tail(s), Append(cur, Head(s)))

\* r.tables: the table set of a loaded row
TablesOf(r) == SplitCommaSpace(r.Table, <<>>)

\* r is on the viewed day, not Cancelled, and start <= s < end
Covers(r, view_date, s) ==
    /\ r.Start # NaT /\ r.End # NaT
    /\ DateOf(r.Start) = view_date
    /\ r.Status # "Cancelled"
    /\ r.Start <= s /\ s < r.End

\* the sessions whose page shows a grid
Showing == { o \in Operators : op[o].pc # "idle" /\ op[o].df # <<>> }

\* C1: every cell (t, s) of a shown grid is marked occupied exactly when some
\* loaded reservation of the viewed day has t in its table set, is not
\* Cancelled, and has start <= s < end
C1_OccupiedIffCovered ==
    \A o \in Showing :
        LET df == op[o].df
            slots == time_slots(op[o].view_date)
            dday == df_day(df, op[o].view_date)
            tabs == [k \in 1..Len(df) |-> TablesOf(df[k])]
        IN  \A r \in 1..Len(all_tables), c \in 1..Len(slots) :
                (Cell(dday, all_tables[r], slots[c]).is_booked = 1) <=>
                    \E k \in 1..Len(df) :
                        /\ Covers(df[k], op[o].view_date, slots[c])
                        /\ all_tables[r] \in tabs[k]

\* the cells of the grid that df gives for view date d, as Cell computes them
CellsOf(df, d) ==
    LET dday == df_day(df, d)
        slots == time_slots(d)
    IN  [r \in 1..Len(all_tables) |->
            [c \in 1..Len(slots) |-> Cell(dday, all_tables[r], slots[c])]]

\* df without its row k
Without(df, k) == SubSeq(df, 1, k - 1) \o SubSeq(df, k + 1, Len(df))

\* C1's case: a shown grid with a booking from 12:00 to 14:00 on Table 1 and
\* Table 2: 12:00 and 13:30 are marked on both, 11:30 and 14:00 on neither
C1_Witness ==
    \E o \in Showing :
        LET d == op[o].view_date
            cells == CellsOf(op[o].df, d)
        IN  /\ \E k \in 1..Len(op[o].df) :
                 /\ op[o].df[k].Start = Combine(d, 12, 0)
                 /\ op[o].df[k].End = Combine(d, 14, 0)
                 /\ op[o].df[k].Status = "Reserved"
                 /\ TablesOf(op[o].df[k]) = {TableName(1), TableName(2)}
            /\ \A r \in 1..2 :
                 /\ cells[r][5].is_booked = 1 /\ cells[r][8].is_booked = 1
                 /\ cells[r][4].is_booked = 0 /\ cells[r][9].is_booked = 0

\* C2: a loaded row whose Status is exactly "Cancelled" marks no cell (the
\* cells are those the rows without it give); a row of the viewed day with
\* any other Status, Reserved or not, marks every cell of its tables from its
\* start to before its end; and the Status a session loads is the sheet's own
C2_OnlyCancelledIsInactive ==
    \A o \in Showing :
        LET df == op[o].df
            d == op[o].view_date
            slots == time_slots(d)
            cells == CellsOf(df, d)
        IN  /\ \A k \in 1..Len(df) :
                 df[k].Status = "Cancelled" => CellsOf(Without(df, k), d) = cells
            /\ \A k \in 1..Len(df) :
                 (df[k].Status # "Cancelled" /\ DateOf(df[k].Start) = d)
                 => \A r \in { r \in 1..Len(all_tables) :
                                 all_tables[r] \in TablesOf(df[k]) } :
                       \A c \in 1..Len(slots) :
                          (TsLe(df[k].Start, slots[c]) /\ TsGt(df[k].End, slots[c]))
                          => cells[r][c].is_booked = 1
            /\ op[o].pc = "viewing"
               => \A k \in 1..Len(df) : df[k].Status = sheet[k + 1].Status

\* C2's case: the shown day has a Cancelled booking over 12:00 and a row of
\* Status "Pending" that marks a cell
C2_Witness ==
    \E o \in Showing :
        LET df == op[o].df
            d == op[o].view_date
        IN  /\ \E k \in 1..Len(df) :
                 /\ df[k].Status = "Cancelled"
                 /\ df[k].Start = Combine(d, 12, 0)
            /\ \E k \in 1..Len(df) :
                 /\ df[k].Status = "Pending"
                 /\ DateOf(df[k].Start) = d
            /\ CellsOf(df, d)[1][4].is_booked = 1

\* the places in df of the rows that occupy cell (tbl, s) on day d
Occupants(df, d, tbl, s) ==
    { k \in 1..Len(df) : Covers(df[k], d, s) /\ tbl \in TablesOf(df[k]) }

\* the cell shows as occupant the first row of df among those occupying it
FirstOccupantShown(df, d, tbl, s) ==
    LET occ == Occupants(df, d, tbl, s)
        first == CHOOSE k \in occ : \A j \in occ : k <= j
    IN  occ # {} =>
            Cell(df_day(df, d), tbl, s).hover_txt
                = <<df[first].CustomerName, df[first].Pax>>

\* C3 as claimed: where more than one active reservation matches a cell, the
\* cell shows the first of them in input order, and what the grid shows for
\* the cell tells the conflict: it is not what the grid shows when the first
\* matching reservation is the only one
C3_ConflictSurfaced ==
    \A o \in Showing :
        LET df == op[o].df
            d == op[o].view_date
            dday == df_day(df, d)
            slots == time_slots(d)
        IN  \A r \in 1..Len(all_tables), c \in 1..Len(slots) :
                LET m == res_match(dday, all_tables[r], slots[c])
                IN  /\ FirstOccupantShown(df, d, all_tables[r], slots[c])
                    /\ Len(m) > 1 =>
                        Cell(dday, all_tables[r], slots[c])
                            # Cell(<<m[1]>>, all_tables[r], slots[c])

\* C7 as claimed: a sheet row whose Start or End does not parse is still a
\* row of the loaded data, marks no cell, and is in the listing of some day
C7_UnparsedKeptAndListed ==
    \A o \in Operators :
        (op[o].pc = "viewing" /\ lastLoad[o] = "ok") =>
            LET df == op[o].df
            IN  /\ Len(df) = Len(get_all_records(sheet))
                /\ \A k \in 1..Len(df) :
                     (df[k].Start = NaT \/ df[k].End = NaT) =>
                        /\ \A d \in Days :
                             CellsOf(Without(df, k), d) = CellsOf(df, d)
                        /\ \E d \in Days :
                             \E j \in 1..Len(df_all(df, d)) :
                                df_all(df, d)[j].ID = df[k].ID

\* the slot sequence the claim describes for day d: 25 slots, 10:00 first,
\* each 30 minutes after the one before, 22:00 last
ClaimedSlots(d) == [c \in 1..25 |-> Combine(d, 10, 0) + 30 * (c - 1)]

BaselineStatus(df, id) == df[CHOOSE k \in 1..Len(df) : df[k].ID = id].Status

\* the edited rows whose Status is not their baseline row's
ChangedRows(df, edited) ==
    { i \in 1..Len(edited) :
        edited[i].Status # BaselineStatus(df, edited[i].ID) }

\* the sessions whose last script run saved, or is about to write its save
Saved(o) == op[o].pc = "saving" \/ op[o].notice = "Database Updated!"

NonStatus(row) == [row EXCEPT !.Status = ""]

\* C6: no step removes a row of the sheet or changes a cell of it other than
\* a Status cell, and a row a step adds has Status Reserved (the header row
\* apart)
C6_OnlyStatusCellsChange ==
    [][ /\ Len(sheet') >= Len(sheet)
        /\ \A n \in 1..Len(sheet) : NonStatus(sheet'[n]) = NonStatus(sheet[n])
        /\ \A n \in (Len(sheet) + 1)..Len(sheet') :
             n > 1 => sheet'[n].Status = "Reserved" ]_vars

\* C6's case: a save has been written whose edited view also had another
\* name for the customer of the row it cancelled; the sheet still has the
\* name it had
C6_Witness ==
    \E o \in Operators :
        /\ op[o].pc = "idle"
        /\ op[o].notice = "Database Updated!"
        /\ \E i \in 1..Len(op[o].edited_df), k \in 1..Len(op[o].df),
              n \in 2..Len(sheet) :
             /\ op[o].edited_df[i].ID = op[o].df[k].ID
             /\ sheet[n].ID = op[o].df[k].ID
             /\ op[o].edited_df[i].CustomerName # op[o].df[k].CustomerName
             /\ op[o].edited_df[i].Status = "Cancelled"
             /\ op[o].df[k].Status = "Reserved"
             /\ sheet[n].Status = "Cancelled"
             /\ sheet[n].CustomerName = op[o].df[k].CustomerName

\* C10: in every step, a row of the sheet stays in its place with its id,
\* and its Status changes only by the write of a session that changed this
\* id's Status against its own baseline, to the Status that session chose;
\* and a session's write puts every Status it changed on the row with the id
C10_SavesWriteOnlyOwnChanges ==
    [][ /\ \A n \in 1..Len(sheet) :
             /\ n <= Len(sheet')
             /\ sheet'[n].ID = sheet[n].ID
             /\ sheet'[n].Status # sheet[n].Status =>
                  \E o \in Operators :
                     /\ op[o].pc = "saving" /\ op'[o].pc = "idle"
                     /\ \E i \in ChangedRows(op[o].df, op[o].edited_df) :
                          /\ op[o].edited_df[i].ID = sheet[n].ID
                          /\ sheet'[n].Status = op[o].edited_df[i].Status
        /\ \A o \in Operators :
             (op[o].pc = "saving" /\ op'[o].pc = "idle") =>
                \A i \in ChangedRows(op[o].df, op[o].edited_df) :
                   \E n \in 2..Len(sheet') :
                      /\ sheet'[n].ID = op[o].edited_df[i].ID
                      /\ sheet'[n].Status = op[o].edited_df[i].Status ]_vars

\* C10's case: two sessions have each written a save of one reservation, a
\* different one each; one of them loaded its baseline before the other's
\* reservation was appended; and both rows have the Status saved for them
C10_Witness ==
    \E o \in Operators, p \in Operators :
        /\ o # p
        /\ op[o].pc = "idle" /\ op[o].notice = "Database Updated!"
        /\ op[p].pc = "idle" /\ op[p].notice = "Database Updated!"
        /\ Len(op[p].df) < Len(op[o].df)
        /\ Len(sheet) = Len(op[o].df) + 1
        /\ \E x \in DOMAIN op[o].changes, y \in DOMAIN op[p].changes :
             /\ x # y
             /\ ~HasID(op[p].df, x)
             /\ \E n \in 2..Len(sheet), m \in 2..Len(sheet) :
                  /\ sheet[n].ID = x /\ sheet[n].Status = op[o].changes[x]
                  /\ sheet[m].ID = y /\ sheet[m].Status = op[p].changes[y]
                  /\ sheet[n].Status = "Cancelled"
                  /\ sheet[m].Status = "Cancelled"

\* C8 as claimed: after a failed load the session has an empty reservation
\* set and no script run of it ends in an unhandled error
C8_FailedLoadNeverCrashes ==
    \A o \in Operators :
        lastLoad[o] = "failed" =>
            /\ op[o].df = <<>>
            /\ err[o] = "none"

\* C5 as claimed: when a save finds fewer rows to update than it has
\* changes, an id being absent from the sheet, an error is surfaced
C5_MissingIdIsSurfaced ==
    \A o \in Operators :
        (Saved(o) /\ Cardinality(op[o].updates)
                        < Cardinality(DOMAIN op[o].changes))
            => err[o] # "none"

=============================================================================
